---- MODULE Spec2Model ----
(***************************************************************************)
(* vcfanno: the configuration checks, the annotate callback with its       *)
(* message buffer, the output loop and the final summary of main           *)
(* (src/vcfanno.go), running against the parallel join engine              *)
(* irelate.PIRelate.  PIRelate and the annotator (AnnotateEnds, CheckAnno, *)
(* CheckPostAnno, Sources, Setup) are not part of src/: the join engine is *)
(* modelled from sections 3, 4.3 and 5 of the specification, and what the  *)
(* annotator returns is an input.  sync.RWMutex is modelled by its         *)
(* documented contract.                                                    *)
(***************************************************************************)
EXTENDS Integers, Sequences, FiniteSets, TLC

(***************************************************************************)
(* Bounds of the model.                                                    *)
(***************************************************************************)
MaxRecs == 3        \* longest query stream
MaxPos == 1         \* largest start position of an interval
MaxChunkSize == 2   \* largest maxChunkSize tried
MaxGapSize == 1     \* largest maxGap tried by Init
MaxProcs == 2       \* largest worker count tried
QueueCap == 1       \* closed chunks that may wait for a worker
StreamCap == 2      \* capacity of the stream PIRelate returns
MaxQueryLen == 2    \* longest query record tried by JoinInit
MaxAnnoLen == 3     \* longest annotation interval tried by JoinInit
MaxAnnos == 2       \* most annotations of a configuration
MaxOps == 2         \* most ops of an annotation
MaxPosts == 1       \* most post-annotations of a configuration
MaxCalls == 12      \* longest query stream of a run of many warnings
MaxEnvLen == 2      \* longest value of an environment variable tried

(***************************************************************************)
(* Program constants.                                                      *)
(***************************************************************************)
BufLen == 10              \* len(lastMsg.s)
DefaultMaxGap == 20000    \* envGet("IRELATE_MAX_GAP", 20000)
DefaultMaxChunk == 8000   \* envGet("IRELATE_MAX_CHUNK", 8000)

Procs == 1..MaxProcs
NoProc == 0

\* The error values AnnotateEnds may return, and nil.
Msgs == {"", "a"}
Nil == [nil |-> TRUE]
Errs == {[msg |-> m] : m \in Msgs}
ErrorOf(err) == err.msg

\* Further messages, each distinct, for runs of many warnings.
MsgNames == <<"m01", "m02", "m03", "m04", "m05", "m06", "m07", "m08", "m09",
              "m10", "m11", "m12", "m13", "m14">>
Msg(k) == [msg |-> MsgNames[k]]

VARIABLES
    config,     \* config.Annotation (the ops of each), config.PostAnnotation
                \* (the op of each) and the -lua flag
    boot,       \* main before the stream: its position, the annotations and
                \* post-annotations checked, the fatal error, the query opened
    query,      \* the query stream: record r is query[r], [start, end)
    anno,       \* the intervals of the annotation source
    errs,       \* per record: the results AnnotateEnds can return for it
    env,        \* the environment: IRELATE_MAX_GAP and IRELATE_MAX_CHUNK
    queryFile,  \* the name of the query file, inFiles[1]
    maxChunk,   \* maxChunk, line 212
    maxGap,     \* maxGap, line 211
    nprocs,     \* the worker count (flag -p)
    qpos,       \* records the chunk builder has read
    cur,        \* the chunk being built
    chunks,     \* closed chunks, in closing order
    mats,       \* per closed chunk: the annotation intervals materialized
    cstate,     \* per closed chunk: queued, running, done
    eof,        \* the builder saw the end of the query stream
    wchunk,     \* per worker: its chunk (0: none)
    widx,       \* per worker: position in its chunk
    pc,         \* per worker: position in fn
    e,          \* per worker: fn's e
    em,         \* per worker: fn's em
    found,      \* per worker: fn's found
    fresh,      \* per worker: no earlier report carried the message of this one
    lastMsg,    \* lastMsg.s and lastMsg.i
    readers,    \* workers holding lastMsg's read lock
    writer,     \* worker holding lastMsg's write lock
    logged,     \* per message: log lines printed for it
    annotated,  \* per record: calls of fn on it
    seen,       \* results AnnotateEnds has returned
    carried,    \* messages of the reports begun so far
    lines,      \* the messages of the log lines, in the order printed
    inserts,    \* the messages stored into lastMsg.s, in the order stored
    nextEmit,   \* the chunk the re-assembler emits next
    emitPos,    \* position in that chunk
    stream,     \* the channel PIRelate returns
    closed,     \* the channel is closed
    out,        \* records written to out
    n,          \* main's n
    mainpc,     \* main: loop, printTime, exit
    summaries   \* the counts printTime has reported

inputVars == <<config, query, anno, errs, env, queryFile, maxChunk, maxGap,
               nprocs>>
cfgVars == <<inputVars, boot>>
buildVars == <<qpos, cur, chunks, mats, cstate, eof>>
workVars == <<wchunk, widx>>
fnVars == <<pc, e, em, found, fresh>>
lockVars == <<readers, writer>>
histVars == <<logged, annotated, seen, carried, lines, inserts>>
emitVars == <<nextEmit, emitPos, stream, closed>>
mainVars == <<out, n, mainpc, summaries>>
runVars == <<buildVars, workVars, fnVars, lastMsg, lockVars, histVars,
             emitVars, mainVars>>
vars == <<cfgVars, runVars>>

\* Intervals [start, end) that start in 0..MaxPos and are 1..len long.
Intervals(len) ==
    {[start |-> a, end |-> a + l] : a \in 0..MaxPos, l \in 1..len}

\* Finite query streams of the given records, sorted by start.
SortedStreams(recs) ==
    {q \in UNION {[1..k -> recs] : k \in 0..MaxRecs} :
        \A i \in 1..(Len(q) - 1) : q[i].start <= q[i + 1].start}

\* Query streams of single-position records (variants).
QueryStreams == SortedStreams(Intervals(1))

\* The ops a configuration may name.
Ops == {"mean", "lua:", "lua:f"}
SeqsUpTo(S, k) == UNION {[1..j -> S] : j \in 0..k}
Configs ==
    [anno : SeqsUpTo(SeqsUpTo(Ops, MaxOps), MaxAnnos),
     post : SeqsUpTo(Ops, MaxPosts),
     lua : {"", "f.lua"}]

\* A configuration that passes every check of main.
PlainConfig == [anno |-> <<<<"mean">>>>, post |-> <<>>, lua |-> ""]

\* Configurations of 0..MaxAnnos annotations that pass every check of main.
PlainConfigs ==
    {[anno |-> [i \in 1..k |-> <<"mean">>], post |-> <<>>, lua |-> ""] :
        k \in 0..MaxAnnos}

\* Names of query files.
QueryFiles == {"q.vcf", "q.gz", "q.bgz"}

\* strings.HasSuffix(s, suffix)
HasSuffix(s, suffix) ==
    /\ Len(s) >= Len(suffix)
    /\ SubSeq(s, Len(s) - Len(suffix) + 1, Len(s)) = suffix

Digits == <<"0", "1", "2", "3", "4", "5", "6", "7", "8", "9">>
IsDigit(ch) == \E d \in 0..9 : Digits[d + 1] = ch
DigitOf(ch) == CHOOSE d \in 0..9 : Digits[d + 1] = ch

\* The decimal numeral of k >= 0, as a shell would export it.
RECURSIVE Itoa(_)
Itoa(k) ==
    IF k < 10 THEN Digits[k + 1]
    ELSE Itoa(k \div 10) \o Digits[(k % 10) + 1]

\* Values of an environment variable: the strings of at most k characters
\* over a digit, a zero, a sign and a letter.
EnvChars == {"0", "7", "-", "x"}
RECURSIVE EnvStrings(_)
EnvStrings(k) ==
    IF k = 0 THEN {""}
    ELSE LET P == EnvStrings(k - 1) IN
         P \cup {p \o ch : p \in P, ch \in EnvChars}

\* The value of the digits of s from position i on, acc being the value of
\* those before; a character that is no digit is a syntax error, value 0.
RECURSIVE ParseDigits(_, _, _)
ParseDigits(s, i, acc) ==
    IF i > Len(s) THEN [val |-> acc, err |-> FALSE]
    ELSE IF ~IsDigit(SubSeq(s, i, i)) THEN [val |-> 0, err |-> TRUE]
    ELSE ParseDigits(s, i + 1, 10 * acc + DigitOf(SubSeq(s, i, i)))

\* strconv.Atoi(s) for the values within the bounds: an optional sign, then
\* one or more digits; on a syntax error the value is 0.
Atoi(s) ==
    LET signed == Len(s) > 0 /\ SubSeq(s, 1, 1) \in {"+", "-"}
        first == IF signed THEN 2 ELSE 1
        mag == ParseDigits(s, first, 0)
    IN  IF first > Len(s) \/ mag.err THEN [val |-> 0, err |-> TRUE]
        ELSE IF signed /\ SubSeq(s, 1, 1) = "-"
               THEN [val |-> 0 - mag.val, err |-> FALSE]
               ELSE mag

\* envGet(name, vdefault), sval being os.Getenv(name): vdefault is assigned
\* what Atoi returns, whether or not err is nil, and returned.
envGet(sval, vdefault) ==
    IF sval # "" THEN Atoi(sval).val ELSE vdefault

\* The log line of envGet, if any: whether the value parsed, and the value
\* printed as used.
envLog(sval, vdefault) ==
    IF sval # ""
      THEN <<[parsed |-> ~Atoi(sval).err, using |-> Atoi(sval).val]>>
      ELSE <<>>

\* main past the call of PIRelate, for a query opened by the plain reader.
Running ==
    [pc |-> "run", a |-> 1, p |-> 0, err |-> "", opened |-> TRUE,
     bgzf |-> "no", reader |-> "plain",
     envlog |-> envLog(env.gap, DefaultMaxGap)
                  \o envLog(env.chunk, DefaultMaxChunk)]

\* main at position at, before the query is opened.
Booting(at, checked) ==
    [pc |-> at, a |-> checked, p |-> 0, err |-> "", opened |-> FALSE,
     bgzf |-> "no", reader |-> "none", envlog |-> <<>>]

\* The messages of the errors AnnotateEnds can return in a run, and those of
\* Msgs.
MsgsOf(es) ==
    Msgs \cup {ErrorOf(x) : x \in (UNION {es[r] : r \in DOMAIN es}) \ {Nil}}

\* The state PIRelate, fn and the output loop start in: lines 176-180 and
\* 224-225, and the join engine before its first read.
RunInit ==
    /\ qpos = 0 /\ cur = <<>> /\ chunks = <<>> /\ mats = <<>> /\ cstate = <<>>
    /\ eof = FALSE
    /\ wchunk = [w \in Procs |-> 0]
    /\ widx = [w \in Procs |-> 0]
    /\ pc = [w \in Procs |-> "idle"]
    /\ e = [w \in Procs |-> Nil]
    /\ em = [w \in Procs |-> ""]
    /\ found = [w \in Procs |-> FALSE]
    /\ fresh = [w \in Procs |-> FALSE]
    /\ lastMsg = [s |-> [k \in 0..(BufLen - 1) |-> ""], i |-> 0]
    /\ readers = {} /\ writer = NoProc
    /\ logged = [m \in MsgsOf(errs) |-> 0]
    /\ annotated = [r \in 1..Len(query) |-> 0]
    /\ seen = {} /\ carried = {}
    /\ lines = <<>> /\ inserts = <<>>
    /\ nextEmit = 1 /\ emitPos = 1 /\ stream = <<>> /\ closed = FALSE
    /\ out = <<>> /\ n = 0 /\ mainpc = "loop" /\ summaries = <<>>

\* A run whose configuration passed: every query stream of variants, chunk
\* size, gap and worker count; an annotation source without intervals.
Init ==
    /\ config = PlainConfig
    /\ queryFile = "q.vcf"
    /\ query \in QueryStreams
    /\ anno = {}
    /\ errs = [r \in 1..Len(query) |-> Errs \cup {Nil}]
    /\ maxChunk \in 1..MaxChunkSize
    /\ maxGap \in 0..MaxGapSize
    /\ env = [gap |-> Itoa(maxGap), chunk |-> Itoa(maxChunk)]
    /\ boot = Running
    /\ nprocs \in 1..MaxProcs
    /\ RunInit

(***************************************************************************)
(* main before the stream: the checks of the configuration, lines 89-114,  *)
(* and the opening of the query, lines 130-222.                            *)
(***************************************************************************)
\* len(op) > 4 && op[:4] == "lua:"
IsLuaOp(op) == Len(op) > 4 /\ SubSeq(op, 1, 4) = "lua:"

\* The test of lines 95 and 106.
LuaMissing(op) == IsLuaOp(op) /\ config.lua = ""

Fatal(why) == boot' = [boot EXCEPT !.pc = "fatal", !.err = why]

\* One turn of the loop of lines 89-99; whether CheckAnno accepts the
\* annotation is an input.
CheckAnnotation ==
    /\ boot.pc = "check" /\ boot.a < Len(config.anno)
    /\ LET ops == config.anno[boot.a + 1] IN
       \E ok \in BOOLEAN :
         IF ~ok THEN Fatal("CheckAnno")
         ELSE IF \E j \in 1..Len(ops) : LuaMissing(ops[j]) THEN Fatal("lua")
         ELSE boot' = [boot EXCEPT !.a = @ + 1]
    /\ UNCHANGED <<inputVars, runVars>>

\* One turn of the loop of lines 100-109; whether CheckPostAnno accepts the
\* post-annotation is an input.
CheckPostAnnotation ==
    /\ boot.pc = "check" /\ boot.a = Len(config.anno)
    /\ boot.p < Len(config.post)
    /\ \E ok \in BOOLEAN :
         IF ~ok THEN Fatal("CheckPostAnno")
         ELSE IF LuaMissing(config.post[boot.p + 1]) THEN Fatal("lua")
         ELSE boot' = [boot EXCEPT !.p = @ + 1]
    /\ UNCHANGED <<inputVars, runVars>>

\* sources, e := config.Sources(), lines 111-114.
Sources ==
    /\ boot.pc = "check" /\ boot.a = Len(config.anno)
    /\ boot.p = Len(config.post)
    /\ \E ok \in BOOLEAN :
         IF ok THEN boot' = [boot EXCEPT !.pc = "open"] ELSE Fatal("Sources")
    /\ UNCHANGED <<inputVars, runVars>>

\* The condition of line 134; && binds tighter than ||, and GOMAXPROCS(0) is
\* what line 79 set.
TryBgzf ==
    \/ Len(config.anno) < nprocs /\ HasSuffix(queryFile, ".gz")
    \/ HasSuffix(queryFile, ".bgz")

\* The query file is opened, lines 130-161.  Whether os.Open succeeds,
\* whether the file is larger than 2320303098 bytes, whether bgzf.NewReader
\* succeeds and whether xopen.Ropen succeeds are inputs.
OpenQuery ==
    /\ boot.pc = "open"
    /\ \E openOk \in BOOLEAN, big \in BOOLEAN, bgzfOk \in BOOLEAN,
          ropenOk \in BOOLEAN :
         IF TryBgzf /\ ~openOk
           THEN Fatal("open")
         ELSE IF TryBgzf /\ bgzfOk
           THEN boot' = [boot EXCEPT !.pc = "stream", !.opened = TRUE,
                                     !.bgzf = "ok",
                                     !.reader = IF big THEN "bgzf4" ELSE "bgzf2"]
         ELSE IF ropenOk
           THEN boot' = [boot EXCEPT !.pc = "stream", !.opened = TRUE,
                                     !.bgzf = IF TryBgzf THEN "failed" ELSE "no",
                                     !.reader = "plain"]
         ELSE boot' = [boot EXCEPT !.pc = "fatal", !.err = "open",
                                   !.bgzf = IF TryBgzf THEN "failed" ELSE "no"]
    /\ UNCHANGED <<inputVars, runVars>>

\* The query is parsed and the annotator set up, lines 162-170; maxGap and
\* maxChunk are read from the environment, lines 211-212; the writer is made
\* and PIRelate called, lines 213-222.
StartStream ==
    /\ boot.pc = "stream"
    /\ \E ok \in BOOLEAN :
         IF ok
           THEN /\ maxGap' = envGet(env.gap, DefaultMaxGap)
                /\ maxChunk' = envGet(env.chunk, DefaultMaxChunk)
                /\ boot' = [boot EXCEPT
                              !.pc = "run",
                              !.envlog = envLog(env.gap, DefaultMaxGap)
                                           \o envLog(env.chunk, DefaultMaxChunk)]
           ELSE Fatal("stream") /\ UNCHANGED <<maxGap, maxChunk>>
    /\ UNCHANGED <<config, query, anno, errs, env, queryFile, nprocs, runVars>>

\* main has called PIRelate, line 218: its goroutines and the output loop run.
Started == boot.pc = "run"

Boot == \/ CheckAnnotation \/ CheckPostAnnotation \/ Sources
        \/ OpenQuery \/ StartStream

(***************************************************************************)
(* The join engine: chunk builder.                                         *)
(***************************************************************************)
\* Mutant of PIRelateArgs: the gap is passed first, then the chunk size.
PIRelateArgsSwapped == [chunk |-> maxGap, gap |-> maxChunk]

\* The arguments main passes to PIRelate: the chunk size, then the gap.
PIRelateArgs == [chunk |-> maxChunk, gap |-> maxGap]

\* A chunk boundary goes before record v of stream q: the chunk c is full,
\* or v starts more than the gap after the previous record.
BoundaryAt(q, c, v, size, gap) ==
    /\ c # <<>>
    /\ \/ Len(c) >= size
       \/ q[v].start - q[c[Len(c)]].start > gap

Boundary(c, v) ==
    BoundaryAt(query, c, v, PIRelateArgs.chunk, PIRelateArgs.gap)

\* Two intervals overlap positionally.
Overlaps(x, y) == x.start < y.end /\ y.start < x.end

Max(S) == CHOOSE x \in S : \A y \in S : y <= x

\* Mutant of Window: the window of the chunk's first record alone.
WindowOfFirst(q, c) == [start |-> q[c[1]].start, end |-> q[c[1]].end]

\* The position window of chunk c of stream q: from the start of its first
\* record to the largest end of its records.
Window(q, c) ==
    [start |-> q[c[1]].start,
     end |-> Max({q[c[k]].end : k \in 1..Len(c)})]

\* The snapshot of a chunk: the annotation intervals that can overlap a
\* record of the chunk.
Materialize(q, an, c) == {x \in an : Overlaps(x, Window(q, c))}

\* The annotation intervals the annotator finds for record r in a snapshot.
Matched(q, mat, r) == {x \in mat : Overlaps(x, q[r])}

\* The chunks the builder closes for stream q from record v on, c being the
\* chunk it is building and acc the chunks it has closed.
RECURSIVE ChunksFrom(_, _, _, _, _, _)
ChunksFrom(q, v, c, acc, size, gap) ==
    IF v > Len(q)
      THEN IF c = <<>> THEN acc ELSE Append(acc, c)
      ELSE IF BoundaryAt(q, c, v, size, gap)
        THEN ChunksFrom(q, v + 1, <<v>>, Append(acc, c), size, gap)
        ELSE ChunksFrom(q, v + 1, Append(c, v), acc, size, gap)

ChunksOf(q, size, gap) == ChunksFrom(q, 1, <<>>, <<>>, size, gap)

\* The annotation intervals the join with the given chunk size and gap
\* attributes to record r of stream q.
Attributed(q, an, size, gap, r) ==
    LET cs == ChunksOf(q, size, gap)
        k == CHOOSE k \in 1..Len(cs) : \E j \in 1..Len(cs[k]) : cs[k][j] = r
    IN  Matched(q, Materialize(q, an, cs[k]), r)

Queued == {k \in 1..Len(chunks) : cstate[k] = "queued"}

CloseChunk ==
    /\ Cardinality(Queued) < QueueCap
    /\ chunks' = Append(chunks, cur)
    /\ mats' = Append(mats, Materialize(query, anno, cur))
    /\ cstate' = Append(cstate, "queued")

ReadQuery ==
    /\ Started
    /\ ~eof /\ qpos < Len(query)
    /\ IF Boundary(cur, qpos + 1)
         THEN CloseChunk /\ cur' = <<qpos + 1>>
         ELSE cur' = Append(cur, qpos + 1) /\ UNCHANGED <<chunks, mats, cstate>>
    /\ qpos' = qpos + 1
    /\ UNCHANGED <<eof, cfgVars, workVars, fnVars, lastMsg, lockVars,
                   histVars, emitVars, mainVars>>

\* End of the query stream: the last chunk, if any, is flushed.
Flush ==
    /\ Started
    /\ ~eof /\ qpos = Len(query)
    /\ IF cur # <<>>
         THEN CloseChunk /\ cur' = <<>>
         ELSE UNCHANGED <<chunks, mats, cstate, cur>>
    /\ eof' = TRUE
    /\ UNCHANGED <<qpos, cfgVars, workVars, fnVars, lastMsg, lockVars,
                   histVars, emitVars, mainVars>>

(***************************************************************************)
(* The join engine: worker pool.                                           *)
(***************************************************************************)
\* A free worker takes the oldest waiting chunk.
TakeChunk(w) ==
    /\ Started
    /\ w <= nprocs /\ pc[w] = "idle" /\ wchunk[w] = 0
    /\ Queued # {}
    /\ LET k == CHOOSE j \in Queued : \A l \in Queued : j <= l IN
         /\ cstate' = [cstate EXCEPT ![k] = "running"]
         /\ wchunk' = [wchunk EXCEPT ![w] = k]
         /\ widx' = [widx EXCEPT ![w] = 1]
    /\ UNCHANGED <<qpos, cur, chunks, mats, eof, cfgVars, fnVars, lastMsg,
                   lockVars, histVars, emitVars, mainVars>>

\* The worker has called fn on every record of its chunk.
FinishChunk(w) ==
    /\ Started
    /\ pc[w] = "idle" /\ wchunk[w] # 0
    /\ widx[w] > Len(chunks[wchunk[w]])
    /\ cstate' = [cstate EXCEPT ![wchunk[w]] = "done"]
    /\ wchunk' = [wchunk EXCEPT ![w] = 0]
    /\ widx' = [widx EXCEPT ![w] = 0]
    /\ UNCHANGED <<qpos, cur, chunks, mats, eof, cfgVars, fnVars, lastMsg, lockVars,
                   histVars, emitVars, mainVars>>

(***************************************************************************)
(* fn, the annotate callback of main.                                      *)
(***************************************************************************)
\* fn returns to the worker, which goes on to the next record of its chunk.
Return(w) ==
    /\ pc' = [pc EXCEPT ![w] = "idle"]
    /\ widx' = [widx EXCEPT ![w] = widx[w] + 1]
    /\ e' = [e EXCEPT ![w] = Nil]
    /\ em' = [em EXCEPT ![w] = ""]
    /\ found' = [found EXCEPT ![w] = FALSE]
    /\ fresh' = [fresh EXCEPT ![w] = FALSE]

\* e := a.AnnotateEnds(v, aends); if e != nil
Annotate(w) ==
    /\ Started
    /\ pc[w] = "idle" /\ wchunk[w] # 0
    /\ widx[w] <= Len(chunks[wchunk[w]])
    /\ \E res \in errs[chunks[wchunk[w]][widx[w]]] :
         /\ annotated' = [annotated EXCEPT ![chunks[wchunk[w]][widx[w]]] = @ + 1]
         /\ seen' = seen \cup {res}
         /\ IF res = Nil
              THEN Return(w)
              ELSE /\ e' = [e EXCEPT ![w] = res]
                   /\ pc' = [pc EXCEPT ![w] = "rlock"]
                   /\ UNCHANGED <<widx, em, found, fresh>>
    /\ UNCHANGED <<wchunk, logged, carried, lines, inserts, buildVars, cfgVars,
                   lastMsg, lockVars, emitVars, mainVars>>

\* lastMsg.RLock()
RLock(w) ==
    /\ Started
    /\ pc[w] = "rlock"
    /\ writer = NoProc
    /\ readers' = readers \cup {w}
    /\ pc' = [pc EXCEPT ![w] = "scan"]
    /\ fresh' = [fresh EXCEPT ![w] = ErrorOf(e[w]) \notin carried]
    /\ carried' = carried \cup {ErrorOf(e[w])}
    /\ UNCHANGED <<e, em, found, writer, workVars, buildVars, cfgVars,
                   lastMsg, logged, annotated, seen, lines, inserts, emitVars,
                   mainVars>>

\* The loop of lines 188-193: em is in some slot of lastMsg.s.
InBuffer(m) == \E k \in 0..(BufLen - 1) : lastMsg.s[k] = m

\* Mutant of Scan: the log line is printed whether or not em was found.
ScanLogsAlways(w) ==
    /\ Started
    /\ pc[w] = "scan"
    /\ LET m == ErrorOf(e[w]) IN
         /\ em' = [em EXCEPT ![w] = m]
         /\ found' = [found EXCEPT ![w] = InBuffer(m)]
         /\ logged' = [logged EXCEPT ![m] = @ + 1]
         /\ lines' = Append(lines, m)
    /\ pc' = [pc EXCEPT ![w] = "runlock"]
    /\ UNCHANGED <<e, fresh, annotated, seen, carried, inserts, workVars,
                   buildVars, cfgVars, lastMsg, lockVars, emitVars, mainVars>>

\* em := e.Error(); the scan; and, if not found, the log line.
Scan(w) ==
    /\ Started
    /\ pc[w] = "scan"
    /\ LET m == ErrorOf(e[w]) IN
         /\ em' = [em EXCEPT ![w] = m]
         /\ found' = [found EXCEPT ![w] = InBuffer(m)]
         /\ logged' = IF InBuffer(m) THEN logged
                      ELSE [logged EXCEPT ![m] = @ + 1]
         /\ lines' = IF InBuffer(m) THEN lines ELSE Append(lines, m)
    /\ pc' = [pc EXCEPT ![w] = "runlock"]
    /\ UNCHANGED <<e, fresh, annotated, seen, carried, inserts, workVars,
                   buildVars, cfgVars, lastMsg, lockVars, emitVars, mainVars>>

\* Mutant of RUnlock: the branch that goes on to Lock keeps the read lock.
RUnlockKept(w) ==
    /\ Started
    /\ pc[w] = "runlock"
    /\ IF found[w]
         THEN readers' = readers \ {w} /\ Return(w)
         ELSE /\ pc' = [pc EXCEPT ![w] = "lock"]
              /\ UNCHANGED <<readers, widx, e, em, found, fresh>>
    /\ UNCHANGED <<writer, wchunk, buildVars, cfgVars,
                   lastMsg, histVars, emitVars, mainVars>>

\* lastMsg.RUnlock(), on either branch.
RUnlock(w) ==
    /\ Started
    /\ pc[w] = "runlock"
    /\ readers' = readers \ {w}
    /\ IF found[w]
         THEN Return(w)
         ELSE pc' = [pc EXCEPT ![w] = "lock"] /\ UNCHANGED <<widx, e, em, found, fresh>>
    /\ UNCHANGED <<writer, wchunk, buildVars, cfgVars,
                   lastMsg, histVars, emitVars, mainVars>>

\* Mutant of Lock: the write lock is granted while readers hold the lock.
LockDespiteReaders(w) ==
    /\ Started
    /\ pc[w] = "lock"
    /\ writer = NoProc
    /\ writer' = w
    /\ pc' = [pc EXCEPT ![w] = "store"]
    /\ UNCHANGED <<e, em, found, fresh, readers, workVars, buildVars, cfgVars,
                   lastMsg, histVars, emitVars, mainVars>>

\* lastMsg.Lock()
Lock(w) ==
    /\ Started
    /\ pc[w] = "lock"
    /\ writer = NoProc /\ readers = {}
    /\ writer' = w
    /\ pc' = [pc EXCEPT ![w] = "store"]
    /\ UNCHANGED <<e, em, found, fresh, readers, workVars, buildVars, cfgVars,
                   lastMsg, histVars, emitVars, mainVars>>

\* lastMsg.s[lastMsg.i] = em
Store(w) ==
    /\ Started
    /\ pc[w] = "store"
    /\ lastMsg.i \in 0..(BufLen - 1)
    /\ lastMsg' = [lastMsg EXCEPT !.s[lastMsg.i] = em[w]]
    /\ inserts' = Append(inserts, em[w])
    /\ pc' = [pc EXCEPT ![w] = "wrap"]
    /\ UNCHANGED <<e, em, found, fresh, workVars, buildVars, cfgVars, lockVars,
                   logged, annotated, seen, carried, lines, emitVars, mainVars>>

\* Mutant of Wrap: the index is compared with len(lastMsg.s).
WrapLate(w) ==
    /\ Started
    /\ pc[w] = "wrap"
    /\ lastMsg' = IF lastMsg.i = BufLen
                    THEN [lastMsg EXCEPT !.i = -1]
                    ELSE lastMsg
    /\ pc' = [pc EXCEPT ![w] = "inc"]
    /\ UNCHANGED <<e, em, found, fresh, workVars, buildVars, cfgVars, lockVars,
                   histVars, emitVars, mainVars>>

\* if lastMsg.i == len(lastMsg.s)-1 { lastMsg.i = -1 }
Wrap(w) ==
    /\ Started
    /\ pc[w] = "wrap"
    /\ lastMsg' = IF lastMsg.i = BufLen - 1
                    THEN [lastMsg EXCEPT !.i = -1]
                    ELSE lastMsg
    /\ pc' = [pc EXCEPT ![w] = "inc"]
    /\ UNCHANGED <<e, em, found, fresh, workVars, buildVars, cfgVars, lockVars,
                   histVars, emitVars, mainVars>>

\* lastMsg.i++
Inc(w) ==
    /\ Started
    /\ pc[w] = "inc"
    /\ lastMsg' = [lastMsg EXCEPT !.i = @ + 1]
    /\ pc' = [pc EXCEPT ![w] = "unlock"]
    /\ UNCHANGED <<e, em, found, fresh, workVars, buildVars, cfgVars, lockVars,
                   histVars, emitVars, mainVars>>

\* Mutant of Unlock: fn returns without lastMsg.Unlock().
UnlockForgotten(w) ==
    /\ Started
    /\ pc[w] = "unlock"
    /\ Return(w)
    /\ UNCHANGED <<readers, writer, wchunk, buildVars, cfgVars,
                   lastMsg, histVars, emitVars, mainVars>>

\* lastMsg.Unlock(), and fn returns.
Unlock(w) ==
    /\ Started
    /\ pc[w] = "unlock"
    /\ writer' = NoProc
    /\ Return(w)
    /\ UNCHANGED <<readers, wchunk, buildVars, cfgVars,
                   lastMsg, histVars, emitVars, mainVars>>

(***************************************************************************)
(* The join engine: re-assembly in chunk order.                            *)
(***************************************************************************)
\* The next chunk in sequence is done: its next record goes to the stream.
Emit ==
    /\ Started
    /\ nextEmit <= Len(chunks) /\ cstate[nextEmit] = "done"
    /\ Len(stream) < StreamCap
    /\ stream' = Append(stream, chunks[nextEmit][emitPos])
    /\ IF emitPos = Len(chunks[nextEmit])
         THEN nextEmit' = nextEmit + 1 /\ emitPos' = 1
         ELSE emitPos' = emitPos + 1 /\ UNCHANGED nextEmit
    /\ UNCHANGED <<closed, buildVars, cfgVars, workVars, fnVars, lastMsg,
                   lockVars, histVars, mainVars>>

\* Every chunk of the finished query stream is emitted: the stream closes.
CloseStream ==
    /\ Started
    /\ eof /\ nextEmit > Len(chunks) /\ ~closed
    /\ closed' = TRUE
    /\ UNCHANGED <<nextEmit, emitPos, stream, buildVars, cfgVars, workVars,
                   fnVars, lastMsg, lockVars, histVars, mainVars>>

(***************************************************************************)
(* main: the output loop and the summary.                                  *)
(***************************************************************************)
\* Mutant of Write: the record is written ahead of the earlier ones.
WriteUnordered ==
    /\ Started
    /\ mainpc = "loop" /\ stream # <<>>
    /\ out' = <<Head(stream)>> \o out
    /\ stream' = Tail(stream)
    /\ n' = n + 1
    /\ UNCHANGED <<mainpc, summaries, nextEmit, emitPos, closed, buildVars,
                   cfgVars, workVars, fnVars, lastMsg, lockVars, histVars>>

\* Mutant of Write: every second record is received and not written.
WriteSkip ==
    /\ Started
    /\ mainpc = "loop" /\ stream # <<>>
    /\ out' = IF n % 2 = 1 THEN out ELSE Append(out, Head(stream))
    /\ stream' = Tail(stream)
    /\ n' = n + 1
    /\ UNCHANGED <<mainpc, summaries, nextEmit, emitPos, closed, buildVars,
                   cfgVars, workVars, fnVars, lastMsg, lockVars, histVars>>

\* Mutant of Write: n counts only the records after the first.
WriteNoCount ==
    /\ Started
    /\ mainpc = "loop" /\ stream # <<>>
    /\ out' = Append(out, Head(stream))
    /\ stream' = Tail(stream)
    /\ n' = IF out = <<>> THEN n ELSE n + 1
    /\ UNCHANGED <<mainpc, summaries, nextEmit, emitPos, closed, buildVars,
                   cfgVars, workVars, fnVars, lastMsg, lockVars, histVars>>

\* for interval := range stream { fmt.Fprintln(out, interval); n++ }
Write ==
    /\ Started
    /\ mainpc = "loop" /\ stream # <<>>
    /\ out' = Append(out, Head(stream))
    /\ stream' = Tail(stream)
    /\ n' = n + 1
    /\ UNCHANGED <<mainpc, summaries, nextEmit, emitPos, closed, buildVars,
                   cfgVars, workVars, fnVars, lastMsg, lockVars, histVars>>

\* The stream is closed and drained: the loop ends.
LoopEnd ==
    /\ Started
    /\ mainpc = "loop" /\ stream = <<>> /\ closed
    /\ mainpc' = "printTime"
    /\ UNCHANGED <<out, n, summaries, emitVars, buildVars, cfgVars, workVars,
                   fnVars, lastMsg, lockVars, histVars>>

\* printTime(start, n)
printTime ==
    /\ Started
    /\ mainpc = "printTime"
    /\ summaries' = Append(summaries, n)
    /\ mainpc' = "exit"
    /\ UNCHANGED <<out, n, emitVars, buildVars, cfgVars, workVars, fnVars,
                   lastMsg, lockVars, histVars>>

Builder == ReadQuery \/ Flush
fn(w) == \/ Annotate(w) \/ RLock(w) \/ Scan(w) \/ RUnlock(w) \/ Lock(w)
         \/ Store(w) \/ Wrap(w) \/ Inc(w) \/ Unlock(w)
Worker(w) == TakeChunk(w) \/ fn(w) \/ FinishChunk(w)
Assembler == Emit \/ CloseStream
Main == Write \/ LoopEnd \/ printTime

Next == Builder \/ (\E w \in Procs : Worker(w)) \/ Assembler \/ Main

Spec == Init /\ [][Next]_vars

\* The builder, every worker, the re-assembler and main are goroutines the Go
\* scheduler keeps running.
FairSpec ==
    /\ Spec
    /\ WF_vars(Builder) /\ WF_vars(Assembler) /\ WF_vars(Main)
    /\ \A w \in Procs : WF_vars(Worker(w))

\* main from its first check of the configuration, over every configuration;
\* one query record, one worker.
CfgInit ==
    /\ config \in Configs
    /\ queryFile = "q.vcf"
    /\ boot = Booting("check", 0)
    /\ query = <<[start |-> 0, end |-> 1]>>
    /\ anno = {}
    /\ errs = [r \in 1..Len(query) |-> Errs \cup {Nil}]
    /\ maxChunk = 1 /\ maxGap = 0 /\ nprocs = 1
    /\ env = [gap |-> Itoa(maxGap), chunk |-> Itoa(maxChunk)]
    /\ RunInit

CfgNext == Boot \/ Next

CfgSpec == CfgInit /\ [][CfgNext]_vars

\* The join over every sorted query stream and annotation source within the
\* bounds, for annotators that return no error; one worker.
JoinInit ==
    /\ config = PlainConfig
    /\ queryFile = "q.vcf"
    /\ query \in SortedStreams(Intervals(MaxQueryLen))
    /\ anno \in SUBSET Intervals(MaxAnnoLen) /\ Cardinality(anno) <= 1
    /\ errs = [r \in 1..Len(query) |-> {Nil}]
    /\ maxChunk \in 1..MaxChunkSize
    /\ maxGap \in 0..(MaxGapSize + 1)
    /\ env = [gap |-> Itoa(maxGap), chunk |-> Itoa(maxChunk)]
    /\ boot = Running
    /\ nprocs = 1
    /\ RunInit

JoinNext ==
    \/ Builder
    \/ \E w \in Procs : TakeChunk(w) \/ Annotate(w) \/ FinishChunk(w)
    \/ Assembler
    \/ Main

JoinSpec == JoinInit /\ [][JoinNext]_vars

\* The results AnnotateEnds can return for record r of a run of many
\* warnings: a message no earlier record has, the message of the record
\* before, the message of the first record, or the empty message.
RepErrs(r) ==
    {Msg(r), Msg(1), [msg |-> ""]}
        \cup (IF r > 1 THEN {Msg(r - 1)} ELSE {})

\* A run of MaxCalls records in one chunk, with one worker.
RepInit ==
    /\ config = PlainConfig
    /\ queryFile = "q.vcf"
    /\ query = [r \in 1..MaxCalls |-> [start |-> 0, end |-> 1]]
    /\ anno = {}
    /\ errs = [r \in 1..MaxCalls |-> RepErrs(r)]
    /\ maxChunk = MaxCalls /\ maxGap = 0
    /\ env = [gap |-> Itoa(maxGap), chunk |-> Itoa(maxChunk)]
    /\ boot = Running
    /\ nprocs = 1
    /\ RunInit

RepSpec == RepInit /\ [][Next]_vars

\* main from the opening of the query on, for annotators that return no
\* error.
StartNext == OpenQuery \/ StartStream \/ JoinNext

\* The settings of the environment tried.
Envs == [gap : EnvStrings(MaxEnvLen), chunk : EnvStrings(MaxEnvLen)]

\* main about to open the query, over every setting of IRELATE_MAX_GAP and
\* IRELATE_MAX_CHUNK; maxGap and maxChunk are not yet assigned.
EnvInit ==
    /\ config = PlainConfig
    /\ queryFile = "q.vcf"
    /\ boot = Booting("open", Len(config.anno))
    /\ query = <<[start |-> 0, end |-> 1]>>
    /\ anno = {}
    /\ errs = [r \in 1..Len(query) |-> {Nil}]
    /\ env \in Envs
    /\ maxChunk = 0 /\ maxGap = 0 /\ nprocs = 1
    /\ RunInit

EnvSpec == EnvInit /\ [][StartNext]_vars

\* main about to open the query, over every query file name, number of
\* annotations and value of -p.
OpenInit ==
    /\ config \in PlainConfigs
    /\ queryFile \in QueryFiles
    /\ boot = Booting("open", Len(config.anno))
    /\ query = <<[start |-> 0, end |-> 1]>>
    /\ anno = {}
    /\ errs = [r \in 1..Len(query) |-> {Nil}]
    /\ maxChunk = 1 /\ maxGap = 0
    /\ env = [gap |-> Itoa(maxGap), chunk |-> Itoa(maxChunk)]
    /\ nprocs \in 1..MaxProcs
    /\ RunInit

OpenSpec == OpenInit /\ [][StartNext]_vars

(***************************************************************************)
(* Properties.                                                             *)
(***************************************************************************)
Records == 1..Len(query)
Times(seq, r) == Cardinality({k \in 1..Len(seq) : seq[k] = r})
InReport(w) == pc[w] \in {"runlock", "lock", "store", "wrap", "inc", "unlock"}

\* C1 Order preservation: the records written so far are the first records
\* of the query stream, in the stream's order, and when main is past the
\* output loop the written sequence is the whole query stream; this for
\* every worker count, chunk size and order in which the chunks finish.
C1_OrderPreserved ==
    /\ \A k \in 1..Len(out) : out[k] = k
    /\ mainpc # "loop" => Len(out) = Len(query)

\* Record 1 is written while chunk 3 is done and chunk 2 is still running:
\* the output waits for chunk 2 although a later chunk finished first.
C1_Witness ==
    /\ out = <<1>> /\ Len(chunks) >= 3
    /\ cstate[2] = "running" /\ cstate[3] = "done"

\* C2 Completeness: no record is passed to fn twice or written twice, a
\* written record has been passed to fn, and when main is past the output
\* loop every record has been passed to fn once and written once, whatever
\* AnnotateEnds returned for it.
C2_Complete ==
    /\ \A r \in Records : annotated[r] <= 1 /\ Times(out, r) <= 1
    /\ \A k \in 1..Len(out) : out[k] \in Records /\ annotated[out[k]] = 1
    /\ mainpc # "loop" =>
         \A r \in Records : annotated[r] = 1 /\ Times(out, r) = 1

\* The run is over, three records are written, and AnnotateEnds returned
\* nil for some record and an error for another.
C2_Witness ==
    /\ mainpc = "exit" /\ Len(out) = 3
    /\ Nil \in seen /\ seen \cap Errs # {}

\* C3 Error suppression, as claimed: while every call of AnnotateEnds has
\* returned the same message m, at most one log line carries m, and at the
\* end of such a run exactly one does and every record is annotated and
\* written.
C3_ExactlyOneLogLine ==
    \A m \in Msgs :
        seen = {[msg |-> m]} =>
            /\ logged[m] <= 1
            /\ mainpc = "exit" =>
                 /\ logged[m] = 1
                 /\ \A r \in Records : annotated[r] = 1 /\ Times(out, r) = 1

\* C4 No false positives, as claimed: a report whose message no earlier
\* report carried finds the message absent, prints a log line for it and
\* has inserted it into the buffer when it unlocks.
C4_FreshNeverSuppressed ==
    \A w \in Procs :
        (InReport(w) /\ fresh[w]) =>
            /\ ~found[w]
            /\ logged[em[w]] >= 1
            /\ pc[w] = "unlock" => InBuffer(em[w])

\* C5 Non-fatal errors never block a record: a worker asking for the write
\* lock holds no read lock, a worker outside fn holds neither lock, and
\* every call of fn that has begun a report returns.
C5_CallsReturn ==
    /\ [](\A w \in Procs :
            /\ pc[w] = "lock" => w \notin readers /\ writer # w
            /\ pc[w] = "idle" => w \notin readers /\ writer # w)
    /\ \A w \in Procs : (pc[w] # "idle") ~> (pc[w] = "idle")

\* Both workers are in a report at once: one holds the write lock while the
\* other waits for a lock.
C5_Witness ==
    /\ writer = 1 /\ pc[1] = "store"
    /\ pc[2] \in {"rlock", "lock"}

\* C9 Termination and final flush: under fair scheduling the builder sees
\* the end of the stream and flushes its last chunk, every record is
\* written, the stream closes and main leaves the output loop.
C9_Terminates ==
    <>(/\ eof /\ cur = <<>> /\ closed
       /\ mainpc = "exit"
       /\ Len(out) = Len(query))

\* The run is over; the last chunk was flushed with fewer than maxChunk
\* records, and AnnotateEnds returned an error for some record.
C9_Witness ==
    /\ mainpc = "exit" /\ Len(out) = 3 /\ chunks # <<>>
    /\ Len(chunks[Len(chunks)]) < maxChunk
    /\ seen \cap Errs # {}

\* C10 Final summary: printTime reports at most once; when it has, the
\* stream is closed and drained and the count reported is the number of
\* records written, which is the number of query records; and a finished run
\* has reported.
C10_Summary ==
    /\ Len(summaries) <= 1
    /\ summaries # <<>> =>
         /\ closed /\ stream = <<>> /\ mainpc = "exit"
         /\ summaries[1] = Len(out)
         /\ Len(out) = Len(query)
    /\ mainpc = "exit" => Len(summaries) = 1

\* The summary of a run of three records.
C10_Witness == summaries = <<3>>

\* op starts with "lua:".
HasLuaPrefix(op) == Len(op) >= 4 /\ SubSeq(op, 1, 4) = "lua:"

\* The ops of the annotations and of the post-annotations.
AllOps ==
    UNION {{config.anno[i][j] : j \in 1..Len(config.anno[i])} :
              i \in 1..Len(config.anno)}
        \cup {config.post[k] : k \in 1..Len(config.post)}

\* C6 Fail-fast for lua ops, as claimed: with a lua:-prefixed op and no lua
\* path main never gets past its checks, so the query is not opened and no
\* record is annotated or written; and with no lua:-prefixed op the lua test
\* is never what aborts the run.
C6_LuaFailFast ==
    /\ ((\E op \in AllOps : HasLuaPrefix(op)) /\ config.lua = "") =>
         /\ boot.pc \in {"check", "fatal"}
         /\ ~boot.opened
         /\ out = <<>>
         /\ \A r \in Records : annotated[r] = 0
    /\ (~\E op \in AllOps : HasLuaPrefix(op)) => boot.err # "lua"

\* Record r is in closed chunk k.
InChunk(k, r) == \E j \in 1..Len(chunks[k]) : chunks[k][j] = r

\* C7 Chunk boundaries: no closed chunk holds more than maxChunk records; two
\* consecutive records whose starts differ by more than maxGap are in no
\* common chunk; and what a chunk's snapshot attributes to a record of the
\* chunk is exactly the annotation intervals that overlap the record.
C7_ChunkBoundaries ==
    \A k \in 1..Len(chunks) :
        /\ Len(chunks[k]) <= maxChunk
        /\ \A r \in 1..(Len(query) - 1) :
             (InChunk(k, r) /\ InChunk(k, r + 1)) =>
                 query[r + 1].start - query[r].start <= maxGap
        /\ \A r \in Records :
             InChunk(k, r) =>
                 Matched(query, mats[k], r) =
                     {x \in anno : Overlaps(x, query[r])}

\* The first chunk was closed short of maxChunk records, at a gap, and an
\* annotation interval is attributed to the records on both sides of the gap.
C7_Witness ==
    /\ Len(chunks) >= 2 /\ Len(chunks[1]) < maxChunk
    /\ \E x \in anno :
         /\ x \in Matched(query, mats[1], chunks[1][Len(chunks[1])])
         /\ x \in Matched(query, mats[2], chunks[2][1])

\* C8 Chunk-independence: the chunks of a finished run are those the chunking
\* rule gives for its chunk size; and for every record, the join with chunk
\* size 1 and the join with a chunk size above the length of the stream
\* attribute the same annotation intervals, which are those the run
\* attributes.
C8_ChunkIndependent ==
    /\ eof => chunks = ChunksOf(query, PIRelateArgs.chunk, PIRelateArgs.gap)
    /\ \A r \in Records :
         Attributed(query, anno, 1, maxGap, r) =
             Attributed(query, anno, Len(query) + 1, maxGap, r)
    /\ \A k \in 1..Len(chunks) : \A r \in Records :
         InChunk(k, r) =>
             Matched(query, mats[k], r) = Attributed(query, anno, 1, maxGap, r)

\* A finished run whose stream is chunked differently by chunk size 1 and by
\* a chunk size above its length, with an annotation interval longer than
\* maxGap attributed to the first two records.
C8_Witness ==
    /\ eof /\ Len(query) >= 2
    /\ ChunksOf(query, 1, maxGap) # ChunksOf(query, Len(query) + 1, maxGap)
    /\ \E x \in anno :
         /\ x.end - x.start > maxGap
         /\ x \in Attributed(query, anno, 1, maxGap, 1)
         /\ x \in Attributed(query, anno, Len(query) + 1, maxGap, 2)

\* The last k elements of seq, or all if it has fewer.
LastOf(seq, k) ==
    {seq[j] : j \in (IF Len(seq) > k THEN Len(seq) - k + 1 ELSE 1)..Len(seq)}

\* The insertions that went to slot k.
InsertsAt(k) == {j \in 1..Len(inserts) : (j - 1) % BufLen = k}

\* The log lines printed before the report worker w is in.
LinesBefore(w) ==
    IF found[w] THEN lines ELSE SubSeq(lines, 1, Len(lines) - 1)

\* C11 Ring-buffer eviction order, as claimed: every slot holds the latest
\* message inserted at it, the insertions going round the BufLen slots in
\* turn, so that the buffer holds the last min(n, BufLen) of n insertions
\* and an insertion overwrites the oldest; and with one worker a report
\* finds its message in the buffer if and only if the message is among the
\* last BufLen messages logged.
C11_RingBuffer ==
    /\ \A k \in 0..(BufLen - 1) :
         lastMsg.s[k] = IF InsertsAt(k) = {} THEN ""
                        ELSE inserts[Max(InsertsAt(k))]
    /\ writer = NoProc => lastMsg.i = Len(inserts) % BufLen
    /\ nprocs = 1 =>
         \A w \in Procs :
             pc[w] = "runlock" =>
                 (found[w] <=> em[w] \in LastOf(LinesBefore(w), BufLen))

\* C17 Write-index bounds: while no worker holds the write lock, and when a
\* slot is about to be written, lastMsg.i is in 0..BufLen-1; and it is the
\* number of insertions modulo BufLen, so that it is 0 again after BufLen
\* insertions.
C17_IndexInBounds ==
    /\ writer = NoProc => lastMsg.i \in 0..(BufLen - 1)
    /\ \A w \in Procs : pc[w] = "store" => lastMsg.i \in 0..(BufLen - 1)
    /\ writer = NoProc => lastMsg.i = Len(inserts) % BufLen
    /\ (writer = NoProc /\ Len(inserts) = BufLen) => lastMsg.i = 0

\* The eleventh insertion went to slot 0 and the index is 1, no one
\* holding the write lock.
C17_Witness ==
    /\ Len(inserts) = BufLen + 1 /\ writer = NoProc
    /\ lastMsg.i = 1 /\ lastMsg.s[0] = inserts[BufLen + 1]

\* The slots of lastMsg.s that hold m.
SlotsOf(m) == {k \in 0..(BufLen - 1) : lastMsg.s[k] = m}

\* C12 Distinctness of the buffer, as claimed: no message that was inserted
\* is in more than one slot of lastMsg.s.
C12_Distinct ==
    \A j \in 1..Len(inserts) : Cardinality(SlotsOf(inserts[j])) <= 1

\* Worker w takes a step of a call of fn that returns no error or finds
\* its message in the buffer.
SilentStep(w) ==
    \/ /\ pc[w] = "idle" /\ pc'[w] = "idle"
       /\ widx'[w] = widx[w] + 1 /\ annotated' # annotated
    \/ pc[w] = "scan" /\ pc'[w] = "runlock" /\ InBuffer(ErrorOf(e[w]))
    \/ pc[w] = "runlock" /\ pc'[w] # "runlock" /\ found[w]

\* C13 Frame of a suppressed or error-free call: a worker that found its
\* message is about to release the read lock and does not hold the write
\* lock; a step of a call that returned no error, or that finds or found
\* its message in the buffer, leaves lastMsg.s, lastMsg.i, the log and the
\* write lock as they are; and such a call returns from the read unlock.
C13_Frame ==
    /\ [](\A w \in Procs : found[w] => pc[w] = "runlock" /\ writer # w)
    /\ [][\A w \in Procs :
            SilentStep(w) =>
                /\ lastMsg' = lastMsg
                /\ logged' = logged /\ lines' = lines /\ inserts' = inserts
                /\ writer' = writer /\ writer' # w
                /\ pc[w] = "runlock" => pc'[w] = "idle"]_vars

\* A call found its message "a", logged once before, in the buffer, and a
\* call before it returned no error.
C13_Witness ==
    \E w \in Procs :
        /\ pc[w] = "runlock" /\ found[w] /\ em[w] = "a"
        /\ logged["a"] = 1 /\ Nil \in seen

\* C15 Bounded duplicate logging, as claimed: while every error returned has
\* the same message, that message has at most nprocs log lines, and at the
\* end of such a run it has at least one.
C15_BoundedDuplicates ==
    \A m \in Msgs :
        seen \ {Nil} = {[msg |-> m]} =>
            /\ logged[m] <= nprocs
            /\ mainpc = "exit" => logged[m] >= 1

\* C16 Mutual exclusion on the message buffer: a worker between Lock and
\* Unlock holds the write lock and no worker holds the read lock; a worker
\* scanning holds the read lock and no worker holds the write lock; and
\* lastMsg.s and lastMsg.i change only in a step of the worker holding the
\* write lock.
C16_MutualExclusion ==
    /\ [](\A w \in Procs :
            /\ pc[w] \in {"store", "wrap", "inc", "unlock"} =>
                   writer = w /\ readers = {}
            /\ pc[w] \in {"scan", "runlock"} =>
                   w \in readers /\ writer = NoProc)
    /\ [][lastMsg' # lastMsg =>
            /\ writer \in Procs /\ readers = {}
            /\ pc[writer] \in {"store", "wrap", "inc"}
            /\ pc'[writer] # pc[writer]
            /\ \A w \in Procs \ {writer} :
                   pc[w] \notin {"scan", "runlock", "store", "wrap", "inc",
                                 "unlock"}]_vars

\* Worker 1 is writing the index while worker 2 waits for the read lock.
C16_Witness ==
    /\ writer = 1 /\ pc[1] = "inc"
    /\ pc[2] = "rlock"

\* What envGet returns as claimed: the default unless the value parses.
Claimed(sval, d) ==
    IF sval = "" \/ Atoi(sval).err THEN d ELSE Atoi(sval).val

\* C14 envGet fallback, as claimed: once main has read the environment,
\* maxGap and maxChunk are the parsed values of IRELATE_MAX_GAP and
\* IRELATE_MAX_CHUNK where these are set to integers, and 20000 and 8000
\* where they are unset, empty or not integers.
C14_EnvGetFallback ==
    boot.pc = "run" =>
        /\ maxGap = Claimed(env.gap, DefaultMaxGap)
        /\ maxChunk = Claimed(env.chunk, DefaultMaxChunk)

\* C18 Parallel bgzf reader selection, as claimed: a bgzf reader is tried
\* only with fewer annotations than GOMAXPROCS and a file name ending in
\* .gz or .bgz; a query whose bgzf reader was not tried, or failed, is read
\* by the plain reader; and main goes on only with the query opened.
C18_BgzfSelection ==
    /\ boot.bgzf # "no" =>
          /\ Len(config.anno) < nprocs
          /\ HasSuffix(queryFile, ".gz") \/ HasSuffix(queryFile, ".bgz")
    /\ (boot.pc \in {"stream", "run"} /\ boot.bgzf \in {"no", "failed"}) =>
          boot.reader = "plain"
    /\ boot.pc \in {"stream", "run"} =>
          boot.opened /\ boot.reader # "none"

====
